---- MODULE Spec2Model ----
(***************************************************************************)
(* Model of the halo2-playground gadgets: the is-zero chip                 *)
(* (src/chips/is_zero.rs) and the lookup-backed XOR chip                   *)
(* (src/chips/xor.rs, src/chips/xor/table.rs), together with the test      *)
(* circuits that drive them and the satisfiability check the mock prover   *)
(* runs on the synthesized witness (gates, lookups, copy constraints).     *)
(*                                                                         *)
(* Scaling.  The pasta field Fp has a 255-bit modulus, get_lower_128 keeps *)
(* 128 bits and the tests use BITS = 4.  The model keeps the ordering      *)
(*        2^BITS <= 2^LowerBits < FieldModulus                             *)
(* with a small prime modulus, so that the three kinds of field element    *)
(* exist: in the table range, above it but inside the extracted integer,   *)
(* and not representable in the extracted integer.                         *)
(***************************************************************************)
EXTENDS Integers, Sequences, FiniteSets, TLC

\* ------------------------------------------------------------------ bounds
\* largest const-generic BITS of an XorChip instance that is explored
MaxBits == 2
\* number of calls of the is-zero chip (load_value, is_zero) a synthesis may make
MaxCalls == 4
\* number of constrain_instance calls a synthesis with the is-zero chip may make
MaxBind == 1

\* ------------------------------------------------------- field arithmetic
\* modulus of the (scaled) prime field standing for pasta::Fp
FieldModulus == 11
\* width of the integer that get_lower_128 extracts (scaled from 128)
LowerBits == 3

Field == 0 .. (FieldModulus - 1)

FAdd(a, b) == (a + b) % FieldModulus
FSub(a, b) == (a + FieldModulus - b) % FieldModulus
FMul(a, b) == (a * b) % FieldModulus

RECURSIVE FPow(_, _)
FPow(a, n) == IF n = 0 THEN 1 ELSE FMul(a, FPow(a, n - 1))

\* Field::invert: a CtOption that is none exactly at the additive identity
FInvert(v) == [is_some |-> v # 0, value |-> FPow(v, FieldModulus - 2)]
\* an unwrap that puts one, not the given default, in place of a missing value
UnwrapOrOne(opt, default) == IF opt.is_some THEN opt.value ELSE 1

\* CtOption::unwrap_or
UnwrapOr(opt, default) == IF opt.is_some THEN opt.value ELSE default

RECURSIVE Pow2(_)
Pow2(n) == IF n = 0 THEN 1 ELSE 2 * Pow2(n - 1)

\* F::from(u64) and F::from_u128: reduction of the integer into the field
FromU64(n) == n % FieldModulus
FromU128(n) == n % FieldModulus
\* an extraction that keeps the whole representative
GetLowerWhole(x) == x

\* FieldExt::get_lower_128: the low LowerBits bits of the representative
GetLower128(x) == x % Pow2(LowerBits)

\* an operator that sets a bit when either operand has it: | in place of ^
BitOr(a, b) ==
    LET RECURSIVE Or(_, _)
        Or(x, y) == IF x = 0 /\ y = 0 THEN 0
                    ELSE (IF (x % 2) + (y % 2) > 0 THEN 1 ELSE 0)
                         + 2 * Or(x \div 2, y \div 2)
    IN  Or(a, b)

\* the ^ operator on machine integers, bit by bit
RECURSIVE BitXor(_, _)
BitXor(a, b) ==
    IF a = 0 /\ b = 0 THEN 0
    ELSE (((a % 2) + (b % 2)) % 2) + 2 * BitXor(a \div 2, b \div 2)

\* ---------------------------------------------------------------- state
VARIABLES
    circuit,    \* which Circuit the prover runs: "is_zero", "xor", or "gate"
    bits,       \* const generic BITS of the XorChip
    loads,      \* whether synthesize of the xor circuit calls xor_table.load
    pc,         \* "run" while synthesize is executing, "failed" once it returned Err
    err,        \* the Error synthesize returned, "none" otherwise
    cells,      \* assigned advice cells: <<column, row>> -> field element
    enabled,    \* set of <<selector, row>> that were enabled
    copies,     \* equality constraints: set of <<cell, cell>>
    colNext,    \* floor planner: column -> first free row
    table,      \* assigned table cells: <<table column, offset>> -> field element
    hist,       \* the calls synthesize made so far: operation, arguments, returned
                \* cells, backend calls it consists of and made, the backend's error
    used,       \* indexes in hist of the ValueIZ values already moved into is_zero
    gate        \* pure gate evaluation: [v, v_inv, is_zero, out]

vars == <<circuit, bits, loads, pc, err, cells, enabled, copies, colNext,
          table, hist, used, gate>>

Errors == {"Synthesis", "NotEnoughRowsAvailable"}

Columns == {"value", "value_inverse", "result", "selector",
            "advice", "left_advice", "right_advice", "result_advice", "q_lookup"}

\* ------------------------------------------------- is-zero gate (configure)
\* a gate that lacks the third constraint, value * is_zero
IsZeroGateTwoConstraints(s, v, v_inv, is_zero) ==
    << FMul(s, FMul(is_zero, FSub(is_zero, 1))),
       FMul(s, FAdd(FMul(FSub(1, is_zero), FSub(FMul(v, v_inv), 1)),
                    FMul(is_zero, FSub(v, v_inv)))),
       0 >>

\* the three polynomials of "is zero gate", s being the selector's value
IsZeroGate(s, v, v_inv, is_zero) ==
    << FMul(s, FMul(is_zero, FSub(is_zero, 1))),
       FMul(s, FAdd(FMul(FSub(1, is_zero), FSub(FMul(v, v_inv), 1)),
                    FMul(is_zero, FSub(v, v_inv)))),
       FMul(FMul(s, v), is_zero) >>

\* ------------------------------------------------------ backend primitives
\* One backend call made inside a region closure, or by the layouter.
Enable(sel, row) == [k |-> "enable", col |-> sel, row |-> row, val |-> 0, src |-> <<>>]
Assign(col, row, v) == [k |-> "assign", col |-> col, row |-> row, val |-> v, src |-> <<>>]
Equal(a, b) == [k |-> "equal", col |-> b[1], row |-> b[2], val |-> 0, src |-> a]

\* an AssignedCell: the cell's position and the value it carries
AssignedCell(col, row, v) == [cell |-> <<col, row>>, value |-> v]

\* AssignedCell::copy_advice: assign the value in the region, then constrain_equal
CopyAdvice(from, col, row) ==
    << Assign(col, row, from.value), Equal(<<col, row>>, from.cell) >>

\* effect of one successful backend call on the constraint system's witness
ApplyPrim(bk, p) ==
    CASE p.k = "enable" -> [bk EXCEPT !.enabled = @ \cup {<<p.col, p.row>>}]
      [] p.k = "assign" ->
            [bk EXCEPT !.cells = [c \in (DOMAIN @) \cup {<<p.col, p.row>>} |->
                                    IF c = <<p.col, p.row>> THEN p.val ELSE @[c]]]
      [] p.k = "equal"  -> [bk EXCEPT !.copies = @ \cup {<<p.src, <<p.col, p.row>>>>}]

\* the first n calls of a sequence of backend calls, in order
RECURSIVE RunPrims(_, _, _)
RunPrims(bk, prims, n) ==
    IF n = 0 THEN bk ELSE ApplyPrim(RunPrims(bk, prims, n - 1), prims[n])

Max(S) == CHOOSE m \in S : \A x \in S : x <= m

\* SimpleFloorPlanner: a region starts at the first row free in all its columns
RegionStart(cn, cols) == Max({cn[c] : c \in cols})

\* ... and its columns are then taken up to the end of the region
Occupy(cn, cols, start, rowCount) ==
    [c \in DOMAIN cn |-> IF c \in cols THEN start + rowCount ELSE cn[c]]

\* number of calls of one operation recorded so far
Calls(op) == Cardinality({i \in 1 .. Len(hist) : hist[i].op = op})

\* A failure is the pair (n, e): the first n backend calls succeed, call n+1
\* returns Err(e).  n = Len(prims) with e = "none" is the run without failure.
Outcome(prims, n, e) ==
    /\ n \in 0 .. Len(prims)
    /\ (n = Len(prims)) <=> (e = "none")

\* a backend that undid the calls of an operation that does not complete
EffectAllOrNothing(bk, prims, n) ==
    IF n = Len(prims) THEN RunPrims(bk, prims, n) ELSE bk

\* The backend has no call that takes an assignment back: when call n+1
\* fails, what the n calls before it did stays in the constraint system.
Effect(bk, prims, n) == RunPrims(bk, prims, n)

\* an error conversion that loses the kind of the error
PropagateAsSynthesis(e) == IF e = "none" THEN "none" ELSE "Synthesis"

\* the `?` after each backend call: the error is returned as it is
Propagate(e) == e

\* What every gadget operation does with its backend calls: each call is
\* followed by `?`, so the first error ends the operation and the calls
\* after it are not made.
Perform(op, arg, out, prims, n, e) ==
    LET bk == Effect([cells |-> cells, enabled |-> enabled, copies |-> copies],
                     prims, n)
    IN  /\ cells' = bk.cells
        /\ enabled' = bk.enabled
        /\ copies' = bk.copies
        /\ pc' = IF e = "none" THEN "run" ELSE "failed"
        /\ err' = Propagate(e)
        /\ hist' = Append(hist, [op |-> op, arg |-> arg,
                                 out |-> IF e = "none" THEN out ELSE <<>>,
                                 calls |-> Len(prims), made |-> n,
                                 backend_err |-> e])

\* ------------------------------------------------------------ is-zero chip
\* a result witness that is the product itself, not its complement
IsZeroResultProduct(v, v_inv) == FMul(v, v_inv)

\* the witness is_zero computes for the result column
IsZeroResult(v, v_inv) == FSub(1, FMul(v, v_inv))

\* the column load_value assigns the inverse to
InverseColumn == "value"

\* IsZeroChip::load_value
LoadValue(v, n, e) ==
    LET r1 == RegionStart(colNext, {"value"})
        cn1 == Occupy(colNext, {"value"}, r1, 1)
        r2 == RegionStart(cn1, {InverseColumn})
        inv == UnwrapOr(FInvert(v), 0)
        prims == << Assign("value", r1, v), Assign(InverseColumn, r2, inv) >>
    IN  /\ circuit = "is_zero" /\ pc = "run"
        /\ Calls("load_value") + Calls("is_zero") < MaxCalls
        /\ Outcome(prims, n, e)
        /\ Perform("load_value", <<v>>,
                   << AssignedCell("value", r1, v), AssignedCell(InverseColumn, r2, inv) >>,
                   prims, n, e)
        /\ colNext' = IF n = 0 THEN cn1 ELSE Occupy(cn1, {InverseColumn}, r2, 1)
        /\ UNCHANGED <<circuit, bits, loads, table, used, gate>>

IsZeroColumns == {"selector", "value", "value_inverse", "result"}

\* the backend calls of the region closure of is_zero, in order
IsZeroPrims(value, row) ==
    << Enable("selector", row) >>
    \o CopyAdvice(value[1], "value", row)
    \o CopyAdvice(value[2], "value_inverse", row)
    \o << Assign("result", row, IsZeroResult(value[1].value, value[2].value)) >>

\* IsZeroChip::is_zero on the ValueIZ returned by the i-th call of synthesize
IsZero(i, n, e) ==
    LET value == hist[i].out
        row == RegionStart(colNext, IsZeroColumns)
        prims == IsZeroPrims(value, row)
    IN  /\ circuit = "is_zero" /\ pc = "run"
        /\ Calls("load_value") + Calls("is_zero") < MaxCalls
        /\ hist[i].op = "load_value" /\ i \notin used
        /\ Outcome(prims, n, e)
        /\ Perform("is_zero", <<i>>,
                   << AssignedCell("result", row,
                                   IsZeroResult(value[1].value, value[2].value)) >>,
                   prims, n, e)
        /\ used' = used \cup {i}
        /\ colNext' = Occupy(colNext, IsZeroColumns, row, 1)
        /\ UNCHANGED <<circuit, bits, loads, table, gate>>

\* layouter.constrain_instance(cell, instance column, 0) on the result of call j
ConstrainInstance(j, n, e) ==
    LET prims == << Equal(hist[j].out[1].cell, <<"instance", 0>>) >>
    IN  /\ pc = "run"
        /\ \/ circuit = "is_zero" /\ hist[j].op = "is_zero"
              /\ Calls("constrain_instance") < MaxBind
           \/ circuit = "xor" /\ hist[j].op = "calculate_xor"
              /\ Calls("constrain_instance") = 0
        /\ Outcome(prims, n, e)
        /\ Perform("constrain_instance", <<j>>, <<>>, prims, n, e)
        /\ UNCHANGED <<circuit, bits, loads, colNext, table, used, gate>>

\* --------------------------------------------------------------- xor table
TableColumns == {"left", "right", "result"}

\* table.assign_cell(column, offset, value)
TableAssign(tab, col, offset, v) ==
    [c \in (DOMAIN tab) \cup {<<col, offset>>} |->
        IF c = <<col, offset>> THEN v ELSE tab[c]]

\* a loop body that writes the two loop variables to each other's column
LoadRowSwapped(tab, left_value, right_value, offset, fuel) ==
    LET t1 == IF fuel >= 1
              THEN TableAssign(tab, "left", offset, FromU64(right_value)) ELSE tab
        t2 == IF fuel >= 2
              THEN TableAssign(t1, "right", offset, FromU64(left_value)) ELSE t1
        t3 == IF fuel >= 3
              THEN TableAssign(t2, "result", offset,
                               FromU64(BitXor(left_value, right_value))) ELSE t2
    IN  t3

\* body of the inner loop of XorTableConfig::load; fuel counts the
\* assign_cell calls that still succeed
LoadRow(tab, left_value, right_value, offset, fuel) ==
    LET t1 == IF fuel >= 1
              THEN TableAssign(tab, "left", offset, FromU64(left_value)) ELSE tab
        t2 == IF fuel >= 2
              THEN TableAssign(t1, "right", offset, FromU64(right_value)) ELSE t1
        t3 == IF fuel >= 3
              THEN TableAssign(t2, "result", offset,
                               FromU64(BitXor(left_value, right_value))) ELSE t2
    IN  t3

\* an inclusive range, 0..=(1 << BITS)
LoopEndInclusive(b) == Pow2(b) + 1

\* the exclusive upper end of both loops: 1 << BITS
LoopEnd(b) == Pow2(b)

\* for right_value in 0..(1 << BITS)
RECURSIVE InnerLoop(_, _, _, _)
InnerLoop(st, b, left_value, right_value) ==
    IF right_value >= LoopEnd(b) \/ st.fuel = 0 THEN st
    ELSE InnerLoop([tab |-> LoadRow(st.tab, left_value, right_value, st.offset, st.fuel),
                    offset |-> IF st.fuel >= 3 THEN st.offset + 1 ELSE st.offset,
                    fuel |-> IF st.fuel >= 3 THEN st.fuel - 3 ELSE 0],
                   b, left_value, right_value + 1)

\* for left_value in 0..(1 << BITS)
RECURSIVE OuterLoop(_, _, _)
OuterLoop(st, b, left_value) ==
    IF left_value >= LoopEnd(b) \/ st.fuel = 0 THEN st
    ELSE OuterLoop(InnerLoop(st, b, left_value, 0), b, left_value + 1)

\* the table cells written when the first n assign_cell calls succeed
LoadedTable(b, n) ==
    OuterLoop([tab |-> << >>, offset |-> 0, fuel |-> n], b, 0).tab

\* number of assign_cell calls of a complete load
LoadCalls(b) == 3 * LoopEnd(b) * LoopEnd(b)

\* XorTableConfig::load, the first call of TestCircuit::synthesize
XorTableLoad(n, e) ==
    /\ circuit = "xor" /\ pc = "run"
    /\ loads /\ hist = << >>
    /\ n \in 0 .. LoadCalls(bits)
    /\ (n = LoadCalls(bits)) <=> (e = "none")
    /\ table' = LoadedTable(bits, n)
    /\ pc' = IF e = "none" THEN "run" ELSE "failed"
    /\ err' = Propagate(e)
    /\ hist' = Append(hist, [op |-> "load", arg |-> <<>>, out |-> <<>>,
                             calls |-> LoadCalls(bits), made |-> n,
                             backend_err |-> e])
    /\ UNCHANGED <<circuit, bits, loads, cells, enabled, copies, colNext, used, gate>>

\* ---------------------------------------------------------------- xor chip
\* TestCircuit::load_advice, called for self.left and then for self.right
LoadAdvice(val, n, e) ==
    LET row == RegionStart(colNext, {"advice"})
        prims == << Assign("advice", row, val) >>
    IN  /\ circuit = "xor" /\ pc = "run"
        /\ loads => Calls("load") = 1
        /\ Calls("load_advice") < 2
        /\ Outcome(prims, n, e)
        /\ Perform("load_advice", <<val>>, << AssignedCell("advice", row, val) >>,
                   prims, n, e)
        /\ colNext' = Occupy(colNext, {"advice"}, row, 1)
        /\ UNCHANGED <<circuit, bits, loads, table, used, gate>>

\* a result witness computed with | in place of ^
XorResultOr(left, right) == FromU128(BitOr(GetLower128(left), GetLower128(right)))

\* the witness calculate_xor computes for the result column
XorResult(left, right) == FromU128(BitXor(GetLower128(left), GetLower128(right)))

XorColumns == {"q_lookup", "left_advice", "right_advice", "result_advice"}

\* a closure that assigns the two input values afresh, without copy constraints
XorPrimsAssignOnly(left_cell_advice, right_cell_advice, row) ==
    << Enable("q_lookup", row),
       Assign("left_advice", row, left_cell_advice.value),
       Assign("right_advice", row, right_cell_advice.value),
       Assign("result_advice", row,
              XorResult(left_cell_advice.value, right_cell_advice.value)) >>

\* a closure that does not enable q_lookup
XorPrimsNoSelector(left_cell_advice, right_cell_advice, row) ==
    CopyAdvice(left_cell_advice, "left_advice", row)
    \o CopyAdvice(right_cell_advice, "right_advice", row)
    \o << Assign("result_advice", row,
                 XorResult(left_cell_advice.value, right_cell_advice.value)) >>

\* the backend calls of the region closure of calculate_xor, in order
XorPrims(left_cell_advice, right_cell_advice, row) ==
    << Enable("q_lookup", row) >>
    \o CopyAdvice(left_cell_advice, "left_advice", row)
    \o CopyAdvice(right_cell_advice, "right_advice", row)
    \o << Assign("result_advice", row,
                 XorResult(left_cell_advice.value, right_cell_advice.value)) >>

\* XorChip::calculate_xor on the cells returned by calls i (left_cell) and
\* j (right_cell) of synthesize
CalculateXor(i, j, n, e) ==
    LET left_cell_advice == hist[i].out[1]
        right_cell_advice == hist[j].out[1]
        row == RegionStart(colNext, XorColumns)
        prims == XorPrims(left_cell_advice, right_cell_advice, row)
    IN  /\ circuit = "xor" /\ pc = "run"
        /\ Calls("calculate_xor") = 0
        /\ hist[i].op = "load_advice" /\ hist[j].op = "load_advice" /\ i < j
        /\ Outcome(prims, n, e)
        /\ Perform("calculate_xor", <<i, j>>,
                   << AssignedCell("result_advice", row,
                          XorResult(left_cell_advice.value, right_cell_advice.value)) >>,
                   prims, n, e)
        /\ colNext' = Occupy(colNext, XorColumns, row, 1)
        /\ UNCHANGED <<circuit, bits, loads, table, used, gate>>

\* ------------------------------------------------------ gate, on its own
\* evaluation of the gate polynomials on one row with the selector active
EvalGate ==
    /\ circuit = "gate" /\ gate.out = <<>>
    /\ gate' = [gate EXCEPT !.out = IsZeroGate(1, gate.v, gate.v_inv, gate.is_zero)]
    /\ UNCHANGED <<circuit, bits, loads, pc, err, cells, enabled, copies,
                   colNext, table, hist, used>>

\* ------------------------------------------------------------ specification
Init ==
    /\ circuit \in {"is_zero", "xor", "gate"}
    /\ bits \in (IF circuit = "xor" THEN 0 .. MaxBits ELSE {0})
    /\ loads \in (IF circuit = "xor" THEN BOOLEAN ELSE {FALSE})
    /\ gate \in (IF circuit = "gate"
                 THEN [v : Field, v_inv : Field, is_zero : Field, out : {<<>>}]
                 ELSE {[v |-> 0, v_inv |-> 0, is_zero |-> 0, out |-> <<>>]})
    /\ pc = "run" /\ err = "none"
    /\ cells = << >> /\ enabled = {} /\ copies = {}
    /\ colNext = [c \in Columns |-> 0]
    /\ table = << >>
    /\ hist = << >> /\ used = {}

Outcomes == Errors \cup {"none"}

\* The values load_value is called with: every field element for the first
\* call of a synthesis, and for the calls after it the additive identity, an
\* element that is not its own inverse, and the largest element (which is
\* its own inverse).
SampleValues == {0, 2, FieldModulus - 1}
LoadInputs == IF Calls("load_value") = 0 THEN Field ELSE SampleValues

Next ==
    \/ \E v \in LoadInputs, n \in 0 .. 2, e \in Outcomes : LoadValue(v, n, e)
    \/ \E i \in 1 .. Len(hist), n \in 0 .. 6, e \in Outcomes : IsZero(i, n, e)
    \/ \E j \in 1 .. Len(hist), n \in 0 .. 1, e \in Outcomes : ConstrainInstance(j, n, e)
    \/ \E n \in 0 .. LoadCalls(bits), e \in Outcomes : XorTableLoad(n, e)
    \/ \E val \in Field, n \in 0 .. 1, e \in Outcomes : LoadAdvice(val, n, e)
    \/ \E i \in 1 .. Len(hist), j \in 1 .. Len(hist), n \in 0 .. 6, e \in Outcomes :
          CalculateXor(i, j, n, e)
    \/ EvalGate

Spec == Init /\ [][Next]_vars

\* --------------------------------------------- satisfiability (verification)
\* value of a cell in the witness; an unassigned advice cell evaluates to
\* zero, the instance cell holds the declared public value p
CellVal(c, p) ==
    IF c[1] = "instance" THEN p
    ELSE IF c \in DOMAIN cells THEN cells[c] ELSE 0

\* value of a selector on a row
SelVal(sel, row) == IF <<sel, row>> \in enabled THEN 1 ELSE 0

\* the rows in use, and one row past them standing for all the unused rows
Rows == 0 .. Max({colNext[c] : c \in Columns})

\* "is zero gate" holds on every row
GateOk ==
    \A row \in Rows :
        IsZeroGate(SelVal("selector", row),
                   CellVal(<<"value", row>>, 0),
                   CellVal(<<"value_inverse", row>>, 0),
                   CellVal(<<"result", row>>, 0)) = <<0, 0, 0>>

\* input expressions that leave the selector out
LookupExprsUngated(q, left_cur, right_cur, result_cur) ==
    << left_cur, right_cur, result_cur >>

\* the input expressions of "lookup": (q * left, q * right, q * result)
LookupExprs(q, left_cur, right_cur, result_cur) ==
    << FMul(q, left_cur), FMul(q, right_cur), FMul(q, result_cur) >>

\* the input expressions evaluated on a row
LookupInput(row) ==
    LookupExprs(SelVal("q_lookup", row),
                CellVal(<<"left_advice", row>>, 0),
                CellVal(<<"right_advice", row>>, 0),
                CellVal(<<"result_advice", row>>, 0))

\* value of a table cell: table columns are fixed columns, a cell that was
\* never assigned holds zero, and assign_table fills the rows after the last
\* assigned offset with the value the column has at offset 0
TableVal(col, offset) ==
    IF <<col, offset>> \in DOMAIN table THEN table[<<col, offset>>]
    ELSE IF <<col, 0>> \in DOMAIN table THEN table[<<col, 0>>] ELSE 0

TableOffsets == {c[2] : c \in DOMAIN table}

\* the rows of the table the lookup argument matches against
TableRows ==
    { << TableVal("left", o), TableVal("right", o), TableVal("result", o) >> :
        o \in TableOffsets \cup {Max(TableOffsets \cup {0}) + 1} }

\* every row's lookup input is a row of the table
LookupOk == \A row \in Rows : LookupInput(row) \in TableRows

\* every equality constraint joins two cells of equal value
PermutationOk(p) == \A c \in copies : CellVal(c[1], p) = CellVal(c[2], p)

\* prover.verify() == Ok(()) for the declared public value p, after
\* MockProver::run(..).unwrap() went through
Verify(p) ==
    /\ pc = "run"
    /\ GateOk
    /\ LookupOk
    /\ PermutationOk(p)

\* ------------------------------------------------------------- properties
\* the call synthesize made last
Last == hist[Len(hist)]

\* synthesize of the is-zero test circuit ran to its end:
\* load_value(number), is_zero(value), constrain_instance(result_cell)
IsZeroCircuitDone ==
    /\ circuit = "is_zero" /\ pc = "run" /\ Len(hist) = 3
    /\ hist[1].op = "load_value"
    /\ hist[2].op = "is_zero"
    /\ hist[3].op = "constrain_instance"

\* C1: the is-zero test circuit with private value v and public value p is
\* satisfiable exactly when p = 1 for v = 0 and p = 0 for v nonzero.
C1_IsZeroCircuit ==
    IsZeroCircuitDone =>
        \A p \in Field :
            Verify(p) <=> (p = IF hist[1].arg[1] = 0 THEN 1 ELSE 0)

\* the circuit was synthesized for a nonzero value: it verifies with 0 and not with 1
C1_Witness ==
    /\ IsZeroCircuitDone
    /\ hist[1].arg[1] # 0
    /\ Verify(0) /\ ~Verify(1)

\* C2: on a row with the selector active, a triple (value, value_inverse,
\* result) that makes the three gate polynomials zero has result = 1 exactly
\* when value = 0 and result = 0 exactly when value # 0.
C2_GateSound ==
    (circuit = "gate" /\ gate.out = <<0, 0, 0>>) =>
        /\ (gate.is_zero = 1) <=> (gate.v = 0)
        /\ (gate.is_zero = 0) <=> (gate.v # 0)

\* a satisfying triple with a nonzero value has been evaluated
C2_Witness ==
    /\ circuit = "gate" /\ gate.out = <<0, 0, 0>>
    /\ gate.v # 0 /\ gate.is_zero = 0

\* bit k of a natural number
Bit(x, k) == (x \div Pow2(k)) % 2

\* exclusive or of two naturals, position by position from bit k down
RECURSIVE XorFrom(_, _, _)
XorFrom(a, b, k) ==
    IF k < 0 THEN 0
    ELSE (IF Bit(a, k) # Bit(b, k) THEN Pow2(k) ELSE 0) + XorFrom(a, b, k - 1)

\* a XOR b for naturals below 2^FieldModulus
RefXor(a, b) == XorFrom(a, b, FieldModulus)

\* calculate_xor has been called and has returned Ok
HasXor ==
    /\ circuit = "xor"
    /\ \E k \in 1 .. Len(hist) : hist[k].op = "calculate_xor" /\ hist[k].out # <<>>

\* that call, the values of the two cells it was given, and its row
XorCall == hist[CHOOSE k \in 1 .. Len(hist) : hist[k].op = "calculate_xor"]
LeftIn == hist[XorCall.arg[1]].out[1]
RightIn == hist[XorCall.arg[2]].out[1]
XorRow == XorCall.out[1].cell[2]

\* the table has been loaded completely
TableLoaded ==
    /\ circuit = "xor" /\ Len(hist) >= 1
    /\ hist[1].op = "load" /\ hist[1].made = hist[1].calls

\* synthesize of the xor test circuit ran to its end, with or without the load
XorCircuitDone ==
    /\ HasXor /\ pc = "run"
    /\ Last.op = "constrain_instance"

InRange(x) == x < Pow2(bits)

\* C3: composed variant on in-range inputs a, b with the table loaded: both
\* cells are copied into left/right under equality constraints, a XOR b is
\* assigned to result, and the circuit binding result to the public value p
\* is satisfiable exactly when p = a XOR b.
C3_ComposedInRange ==
    (XorCircuitDone /\ TableLoaded /\ InRange(LeftIn.value) /\ InRange(RightIn.value)) =>
        /\ cells[<<"left_advice", XorRow>>] = LeftIn.value
        /\ cells[<<"right_advice", XorRow>>] = RightIn.value
        /\ <<<<"left_advice", XorRow>>, LeftIn.cell>> \in copies
        /\ <<<<"right_advice", XorRow>>, RightIn.cell>> \in copies
        /\ cells[<<"result_advice", XorRow>>] = RefXor(LeftIn.value, RightIn.value)
        /\ \A p \in Field :
              Verify(p) <=> (p = RefXor(LeftIn.value, RightIn.value))

\* left = 3, right = 1 with BITS = 2: verifies with public value 2, not with 3
C3_Witness ==
    /\ XorCircuitDone /\ TableLoaded /\ bits = 2
    /\ LeftIn.value = 3 /\ RightIn.value = 1
    /\ Verify(2) /\ ~Verify(3)

\* C4: with the table loaded, every row of the table has its left and right
\* inside [0, 2^BITS), so no triple (left, right, result) with left or right
\* outside that range matches a row, whatever result is; and
\* the witness calculate_xor computes for an out-of-range input cell does not
\* pass the lookup.
C4_LookupSound ==
    TableLoaded =>
        /\ \A t \in TableRows : InRange(t[1]) /\ InRange(t[2])
        /\ (HasXor /\ (~InRange(LeftIn.value) \/ ~InRange(RightIn.value))) =>
              /\ ~LookupOk
              /\ \A p \in Field : ~Verify(p)

\* calculate_xor ran on an out-of-range left cell and an in-range right cell
C4_Witness ==
    /\ TableLoaded /\ HasXor /\ pc = "run"
    /\ ~InRange(LeftIn.value) /\ InRange(RightIn.value)
    /\ <<"q_lookup", XorRow>> \in enabled
    /\ ~LookupOk

XorInputCells == {<<"left_advice", XorRow>>, <<"right_advice", XorRow>>}

C7_LoadValue ==
    \A i \in 1 .. Len(hist) :
        (hist[i].op = "load_value" /\ hist[i].out # <<>>) =>
            LET v == hist[i].arg[1]
                value_cell == hist[i].out[1]
                inverse_cell == hist[i].out[2]
            IN  /\ value_cell.cell[1] = "value"
                /\ cells[value_cell.cell] = v
                /\ inverse_cell.cell[1] = "value_inverse"
                /\ cells[inverse_cell.cell] = inverse_cell.value
                /\ IF v = 0 THEN inverse_cell.value = 0
                   ELSE FMul(v, inverse_cell.value) = 1

\* the operations C8 is about
GadgetOps == {"load_value", "is_zero", "calculate_xor"}

\* C8 (as stated): a gadget operation in which a backend call fails leaves
\* none of the cells of that invocation assigned.
C8_NoPartialSuccess ==
    [][(pc' = "failed" /\ hist'[Len(hist')].op \in GadgetOps) =>
            DOMAIN cells' = DOMAIN cells]_vars

\* number of cells an operation has assigned once `made` of its backend calls
\* went through: load_value assigns with each call, the region closures of
\* is_zero and calculate_xor with their calls 2, 4 and 6
AssignedBy(h) ==
    CASE h.op \in {"load_value", "load_advice"} -> h.made
      [] h.op \in {"is_zero", "calculate_xor"} -> h.made \div 2
      [] OTHER -> 0

RECURSIVE AssignedUpTo(_)
AssignedUpTo(k) == IF k = 0 THEN 0 ELSE AssignedBy(hist[k]) + AssignedUpTo(k - 1)

\* C8 (amended): an operation in which a backend call fails returns that same
\* error, makes no further backend call and is the last one of the
\* synthesis; the cells assigned by the calls that went through before the
\* failure stay assigned.  Without a failure all cells of the invocation are
\* assigned.
C8_ErrorPropagation ==
    circuit \in {"is_zero", "xor"} =>
        /\ \A i \in 1 .. Len(hist) :
              /\ hist[i].made < hist[i].calls =>
                    /\ i = Len(hist) /\ pc = "failed"
                    /\ hist[i].backend_err \in Errors
                    /\ err = hist[i].backend_err
                    /\ hist[i].out = <<>>
              /\ hist[i].made = hist[i].calls =>
                    /\ hist[i].backend_err = "none"
                    /\ i = Len(hist) => (pc = "run" /\ err = "none")
        /\ Cardinality(DOMAIN cells) = AssignedUpTo(Len(hist))

\* the second assignment of load_value failed: the value cell is assigned
C8_Witness ==
    /\ pc = "failed" /\ err = "NotEnoughRowsAvailable"
    /\ Last.op = "load_value" /\ Last.made = 1
    /\ DOMAIN cells = {<<"value", 0>>}

C10_FullRepresentatives ==
    HasXor => cells[<<"result_advice", XorRow>>] = RefXor(LeftIn.value, RightIn.value)

\* C10 (amended): the value assigned to result is the XOR of the low
\* LowerBits bits of the two representatives; it is the XOR of the full
\* representatives when both fit in LowerBits bits.
C10_LowerBitsXor ==
    HasXor =>
        LET x == LeftIn.value
            y == RightIn.value
            result == cells[<<"result_advice", XorRow>>]
        IN  /\ result = RefXor(x % Pow2(LowerBits), y % Pow2(LowerBits))
            /\ (x < Pow2(LowerBits) /\ y < Pow2(LowerBits)) => result = RefXor(x, y)

\* the left cell holds 2^LowerBits + 1, the right cell 3: the result is 1 XOR 3
C10_Witness ==
    /\ HasXor
    /\ LeftIn.value = Pow2(LowerBits) + 1 /\ RightIn.value = 3
    /\ cells[<<"result_advice", XorRow>>] = 2

\* the indexes in hist of the is_zero calls that returned Ok
IsZeroCalls ==
    {i \in 1 .. Len(hist) : hist[i].op = "is_zero" /\ hist[i].out # <<>>}

\* C11: after any sequence of load_value and is_zero calls that returned Ok,
\* every row with the is-zero selector active is the row of one is_zero call
\* and holds a triple that satisfies the three gate constraints; its value
\* and value_inverse cells are equality-linked to the two cells the
\* load_value call of that pair returned; and its result is determined by
\* the value of that load_value call alone.
C11_Completeness ==
    (circuit = "is_zero" /\ pc = "run") =>
        /\ GateOk
        /\ {c[2] : c \in {s \in enabled : s[1] = "selector"}} =
              {hist[i].out[1].cell[2] : i \in IsZeroCalls}
        /\ \A i \in IsZeroCalls :
              LET row == hist[i].out[1].cell[2]
                  load == hist[hist[i].arg[1]]
              IN  /\ load.op = "load_value"
                  /\ IsZeroGate(1, cells[<<"value", row>>],
                                cells[<<"value_inverse", row>>],
                                cells[<<"result", row>>]) = <<0, 0, 0>>
                  /\ <<<<"value", row>>, load.out[1].cell>> \in copies
                  /\ <<<<"value_inverse", row>>, load.out[2].cell>> \in copies
                  /\ cells[<<"value", row>>] = cells[load.out[1].cell]
                  /\ cells[<<"value_inverse", row>>] = cells[load.out[2].cell]
                  /\ cells[<<"value", row>>] = load.arg[1]
                  /\ cells[<<"result", row>>] = (IF load.arg[1] = 0 THEN 1 ELSE 0)
        /\ \A i \in IsZeroCalls, j \in IsZeroCalls :
              (hist[i].arg[1] # hist[j].arg[1]) =>
                  hist[i].out[1].cell[2] # hist[j].out[1].cell[2]

\* two pairs were loaded, for 0 and for a nonzero value, and is_zero ran on
\* both, the second pair first: two rows are active, with results 0 and 1
C11_Witness ==
    /\ circuit = "is_zero" /\ pc = "run" /\ Len(hist) = 4
    /\ hist[1].op = "load_value" /\ hist[1].arg[1] = 0
    /\ hist[2].op = "load_value" /\ hist[2].arg[1] = 2
    /\ hist[3].op = "is_zero" /\ hist[3].arg[1] = 2 /\ hist[3].out[1].value = 0
    /\ hist[4].op = "is_zero" /\ hist[4].arg[1] = 1 /\ hist[4].out[1].value = 1
    /\ Cardinality({s \in enabled : s[1] = "selector"}) = 2

\* the rows on which q_lookup is not enabled
InactiveRows == {row \in Rows : <<"q_lookup", row>> \notin enabled}

\* C12: with the table loaded, for every BITS explored, the table holds
\* (0, 0, 0) at offset 0; the lookup input with the selector at 0 is
\* (0, 0, 0) whatever the three advice cells hold; so every row on which
\* q_lookup is not enabled passes the lookup, and a lookup failure is the
\* failure of a row on which it is enabled.
C12_InactiveRowsPass ==
    TableLoaded =>
        /\ table[<<"left", 0>>] = 0
        /\ table[<<"right", 0>>] = 0
        /\ table[<<"result", 0>>] = 0
        /\ \A l \in Field, r \in Field, res \in Field :
              LookupExprs(0, l, r, res) = <<0, 0, 0>>
        /\ \A row \in InactiveRows :
              /\ LookupInput(row) = <<0, 0, 0>>
              /\ LookupInput(row) \in TableRows
        /\ ~LookupOk =>
              \E row \in Rows :
                  /\ <<"q_lookup", row>> \in enabled
                  /\ LookupInput(row) \notin TableRows

\* the caller's second load row holds a nonzero value and has no q_lookup;
\* the row of calculate_xor is the only one the lookup rejects
C12_Witness ==
    /\ TableLoaded /\ HasXor /\ pc = "run"
    /\ 1 \in InactiveRows
    /\ cells[<<"advice", 1>>] = FieldModulus - 1
    /\ LookupInput(1) \in TableRows
    /\ ~LookupOk

====
